---- MODULE Spec2Model ----
(***************************************************************************)
(* Model of mac_computer_use: the chat API (api.py) and the screen         *)
(* streaming service (ws.py).                                              *)
(*                                                                         *)
(* Strings that the code builds by concatenation are sequences of tokens,  *)
(* so that concatenation, the marker f-strings and strip() are computed.   *)
(* The orchestrator (loop.sampling_loop) and the provider table            *)
(* (loop.PROVIDER_TO_DEFAULT_MODEL_NAME, loop.APIProvider) are imported by *)
(* api.py from a module that is not part of the sources at hand; they are  *)
(* modelled from the design document.                                      *)
(***************************************************************************)
EXTENDS Integers, Sequences, FiniteSets, TLC

\* ------------------------------------------------------------------------
\* Bounds and input alphabets
\* ------------------------------------------------------------------------

\* Provider calls one orchestrator run may make before the provider is
\* required to answer with a turn that has no tool_use block.
MaxCalls == 2

\* Concurrent chat requests.
Reqs == {"r1", "r2"}

None == "None"

Methods == {"GET", "POST"}

\* request.message
Messages == {"hi"}

\* Default of only_n_most_recent_images, in ChatRequest and in the query
\* parameters of GET /chat.
DefaultImages == 10

\* What a client supplies: the message, and optionally (0 or 1 value) the
\* system prompt suffix and the number of images to keep.
Supplied ==
    [message : Messages, system_prompt_suffix : {<<>>, <<"be brief">>},
     only_n_most_recent_images : {<<>>, <<3>>}]

\* The client that supplies the message only.
MessageOnly ==
    { s \in Supplied : s.system_prompt_suffix = <<>> /\ s.only_n_most_recent_images = <<>> }

\* ------------------------------------------------------------------------
\* Environment (os.getenv) and configuration resolution
\* ------------------------------------------------------------------------

Unset == "<unset>"

KeyValues == {Unset, "", "sk-key"}
ProviderValues == {Unset, "bedrock", "bogus"}
ModelValues == {Unset, "", "my-model"}

\* Members of the APIProvider enumeration.
APIProvider == {"anthropic", "bedrock"}

\* Candidate provider -> default model tables; a provider without an entry
\* has no default model (dict.get returns None).
DefaultTables ==
    { [p \in APIProvider |-> IF p = "anthropic" THEN "default-anthropic" ELSE "default-bedrock"],
      [p \in APIProvider |-> IF p = "anthropic" THEN "default-anthropic" ELSE None] }

\* os.getenv(name, default)
getenv(e, name, default) == IF e[name] = Unset THEN default ELSE e[name]

\* Python truthiness of an optional string.
Truthy(s) == s # None /\ s # ""

\* Outcome of a call: an exception with its str(), or a returned value.
Raise(msg) == [ok |-> FALSE, exc |-> msg, value |-> <<>>]
Return(v) == [ok |-> TRUE, exc |-> <<>>, value |-> <<v>>]

\* str(ValueError) of APIProvider(p) for a value that is no member.
InvalidProviderMsg(p) == <<"'", p, "' is not a valid APIProvider">>
NoKeyMsg == <<"No API key found. Please set ANTHROPIC_API_KEY environment variable.">>
NoModelMsg == <<"No model specified. Please set API_MODEL environment variable.">>

\* ResolveConfig without the api_key check of line 53.
ResolveConfig_NoKeyCheck(e, table) ==
    LET provider == getenv(e, "API_PROVIDER", "anthropic")
        env_model == getenv(e, "API_MODEL", None)
    IN  IF provider \notin APIProvider THEN Raise(InvalidProviderMsg(provider))
        ELSE LET model == IF Truthy(env_model) THEN env_model ELSE table[provider]
             IN  IF ~Truthy(model) THEN Raise(NoModelMsg)
                 ELSE Return([api_key |-> getenv(e, "ANTHROPIC_API_KEY", ""),
                              provider |-> provider, model |-> model])

\* process_chat_request, lines 49-57 and the APIProvider(provider) argument
\* of line 94: everything that happens before sampling_loop is entered.
ResolveConfig(e, table) ==
    LET api_key == getenv(e, "ANTHROPIC_API_KEY", None)
        provider == getenv(e, "API_PROVIDER", "anthropic")
        env_model == getenv(e, "API_MODEL", None)
    IN  IF ~Truthy(env_model) /\ provider \notin APIProvider
        THEN Raise(InvalidProviderMsg(provider))
        ELSE LET model == IF Truthy(env_model) THEN env_model ELSE table[provider]
             IN  IF ~Truthy(api_key) THEN Raise(NoKeyMsg)
                 ELSE IF ~Truthy(model) THEN Raise(NoModelMsg)
                 ELSE IF provider \notin APIProvider THEN Raise(InvalidProviderMsg(provider))
                 ELSE Return([api_key |-> api_key, provider |-> provider, model |-> model])

\* ------------------------------------------------------------------------
\* Content blocks, turns and the transcript (process_chat_request 103-124)
\* ------------------------------------------------------------------------

\* A key a plain mapping does not have / an attribute a typed block lacks.
Missing == "<missing>"
MissingText == <<Missing>>

BetaTextBlock(text) ==
    [cls |-> "BetaTextBlock", type |-> "text", text |-> text, name |-> Missing, id |-> Missing]
BetaToolUseBlock(name, id) ==
    [cls |-> "BetaToolUseBlock", type |-> "tool_use", text |-> MissingText, name |-> name, id |-> id]
DictText(text) ==
    [cls |-> "dict", type |-> "text", text |-> text, name |-> Missing, id |-> Missing]
DictToolUse(name, id) ==
    [cls |-> "dict", type |-> "tool_use", text |-> MissingText, name |-> name, id |-> id]
\* tool_result block the orchestrator appends to a user turn; text holds
\* the tool's output.
DictToolResult(id, out) ==
    [cls |-> "dict", type |-> "tool_result", text |-> out, name |-> Missing, id |-> id]

Turn(role, content) == [role |-> role, content |-> content]

\* dict.get(key, default)
DictGet(v, default) == IF v = Missing THEN default ELSE v
DictGetText(v, default) == IF v = MissingText THEN default ELSE v

\* Lines 109-118: the text one block adds to final_response.
BlockFragment(block) ==
    IF block.cls = "BetaTextBlock" THEN block.text \o <<"\n">>
    ELSE IF block.cls = "BetaToolUseBlock"
    THEN <<"\n", "Tool Used: ", block.name, " (ID: ", block.id, ")", "\n">>
    ELSE IF block.cls = "dict"
    THEN IF block.type = "text" THEN DictGetText(block.text, <<>>) \o <<"\n">>
         ELSE IF block.type = "tool_use"
         THEN <<"\n", "Tool Used: ", DictGet(block.name, "Unknown"), "\n">>
         ELSE <<>>
    ELSE <<>>

RECURSIVE ContentFragments(_)
ContentFragments(content) ==
    IF content = <<>> THEN <<>>
    ELSE BlockFragment(Head(content)) \o ContentFragments(Tail(content))

\* MessageFragments without the role test of line 106.
MessageFragments_AnyRole(message) == ContentFragments(message.content)

\* Lines 105-107: only assistant messages contribute.
MessageFragments(message) ==
    IF message.role = "assistant" THEN ContentFragments(message.content) ELSE <<>>

RECURSIVE FinalResponse(_)
FinalResponse(msgs) ==
    IF msgs = <<>> THEN <<>>
    ELSE MessageFragments(Head(msgs)) \o FinalResponse(Tail(msgs))

Whitespace == {"\n", " "}

RECURSIVE LStrip(_)
LStrip(s) == IF s # <<>> /\ Head(s) \in Whitespace THEN LStrip(Tail(s)) ELSE s

RECURSIVE RStrip(_)
RStrip(s) ==
    IF s # <<>> /\ s[Len(s)] \in Whitespace THEN RStrip(SubSeq(s, 1, Len(s) - 1)) ELSE s

\* str.strip()
Strip(s) == RStrip(LStrip(s))

\* Lines 120-124.
ChatResponse(msgs, tools, exchanges) ==
    [full_response |-> Strip(FinalResponse(msgs)),
     tools_used |-> tools,
     api_exchanges |-> exchanges]

\* ------------------------------------------------------------------------
\* Exchange Recorder (process_chat_request 67-88)
\* ------------------------------------------------------------------------

PyInt(n) == [py |-> "int", n |-> n, s |-> ""]
PyStr(x) == [py |-> "str", n |-> 0, s |-> x]

\* str(v)
Str(v) == IF v.py = "int" THEN ToString(v.n) ELSE v.s

\* {str(k): str(v) for k, v in headers.items()}, as a sequence of pairs.
StrHeaders(h) == [i \in 1..Len(h) |-> <<Str(h[i][1]), Str(h[i][2])>>]

\* Raw provider responses handed to api_response_callback.  http_request
\* and status_code are sequences of length 0 (None) or 1.
HttpRequest ==
    [method |-> PyStr("POST"), url |-> PyStr("https://api/v1/messages"),
     headers |-> << <<PyStr("content-length"), PyInt(42)>> >>]

RawResponse(req, status, body) ==
    [http_request |-> req, status_code |-> status,
     headers |-> << <<PyStr("retry-after"), PyInt(0)>> >>, text |-> body]

RawShapes == {"ok", "no_request", "no_status"}

MakeRaw(shape, body) ==
    RawResponse(IF shape = "no_request" THEN <<>> ELSE <<HttpRequest>>,
                IF shape = "no_status" THEN <<>> ELSE <<200>>,
                body)

\* Lines 79-86: the APIExchangeResponse the callback builds, or the
\* exception raised while building it.  now is datetime.now(), the default
\* of the timestamp field.
APIExchangeResponse(response, now) ==
    IF response.http_request = <<>>
    THEN Raise(<<"'NoneType' object has no attribute 'method'">>)
    ELSE IF response.status_code = <<>>
    THEN Raise(<<"validation error for APIExchangeResponse: response_status_code">>)
    ELSE Return([request_method |-> Str(response.http_request[1].method),
                 request_url |-> Str(response.http_request[1].url),
                 request_headers |-> StrHeaders(response.http_request[1].headers),
                 response_status_code |-> response.status_code[1],
                 response_headers |-> StrHeaders(response.headers),
                 response_text |-> response.text,
                 timestamp |-> now])

\* api_response_callback without its try/except.
api_response_callback_NoTry(exchanges, response, now) ==
    LET built == APIExchangeResponse(response, now)
    IN  IF built.ok THEN Return(Append(exchanges, built.value[1])) ELSE Raise(built.exc)

\* Lines 77-88: the outcome of api_response_callback(response): the new
\* api_exchanges.  The record is built before append is called, and the
\* except clause swallows every failure of the construction.
api_response_callback(exchanges, response, now) ==
    LET built == APIExchangeResponse(response, now)
    IN  IF built.ok THEN Return(Append(exchanges, built.value[1])) ELSE Return(exchanges)

\* Tool results handed to tool_output_callback.  renders = FALSE stands for
\* a result whose str() raises.
ToolResult(output, error, renders) == [output |-> output, error |-> error, renders |-> renders]

ToolResults ==
    { ToolResult("screenshot taken", "", TRUE),
      ToolResult("", "command failed", TRUE),
      ToolResult("", "", FALSE) }

\* str() of the exception a failing str(tool_output) raises.
StrFailure == <<"__str__ failed">>

\* str(tool_output)
StrToolResult(t) ==
    IF t.renders
    THEN Return(<<"ToolResult(output=", t.output, ", error=", t.error, ")">>)
    ELSE Raise(StrFailure)

\* tool_output_callback inserting the record at the front of the list.
tool_output_callback_Prepend(tools, tool_output, tool_id) ==
    LET rendered == StrToolResult(tool_output)
    IN  IF rendered.ok
        THEN Return(<<[tool_id |-> tool_id, output |-> rendered.value[1]]>> \o tools)
        ELSE Raise(rendered.exc)

\* Lines 71-75: the outcome of tool_output_callback(tool_output, tool_id):
\* the new tools_used, or the exception of str() (nothing catches it).
tool_output_callback(tools, tool_output, tool_id) ==
    LET rendered == StrToolResult(tool_output)
    IN  IF rendered.ok
        THEN Return(Append(tools, [tool_id |-> tool_id, output |-> rendered.value[1]]))
        ELSE Raise(rendered.exc)

\* ------------------------------------------------------------------------
\* HTTP endpoints (chat_get_endpoint 128-145, chat_endpoint 147-155)
\* ------------------------------------------------------------------------

JsonString(str) == [json |-> "string", str |-> str, obj |-> <<>>]
JsonObject(obj) == [json |-> "object", str |-> <<>>, obj |-> <<obj>>]

HttpOk(body) == [status |-> 200, body |-> body, detail |-> <<>>]
HTTPException(status_code, detail) ==
    [status |-> status_code, body |-> JsonString(<<>>), detail |-> detail]

\* ChatRequest, lines 26-29: a field left out takes the model's default.
ChatRequest(fields) ==
    [message |-> fields.message,
     system_prompt_suffix |->
        IF fields.system_prompt_suffix = <<>> THEN None ELSE fields.system_prompt_suffix[1],
     only_n_most_recent_images |->
        IF fields.only_n_most_recent_images = <<>> THEN DefaultImages
        ELSE fields.only_n_most_recent_images[1]]

\* POST /chat, line 148: the body is parsed into a ChatRequest.
BodyRequest(supplied) == ChatRequest(supplied)

\* GET /chat building its ChatRequest from the message alone.
QueryRequest_MessageOnly(supplied) ==
    ChatRequest([message |-> supplied.message, system_prompt_suffix |-> <<>>,
                 only_n_most_recent_images |-> <<>>])

\* GET /chat, lines 129-138: a query parameter left out takes its Query
\* default, then the ChatRequest is built from the three values.
QueryRequest(supplied) ==
    LET system_prompt_suffix ==
            IF supplied.system_prompt_suffix = <<>> THEN None
            ELSE supplied.system_prompt_suffix[1]
        only_n_most_recent_images ==
            IF supplied.only_n_most_recent_images = <<>> THEN DefaultImages
            ELSE supplied.only_n_most_recent_images[1]
    IN  ChatRequest([message |-> supplied.message,
                     system_prompt_suffix |-> <<system_prompt_suffix>>,
                     only_n_most_recent_images |-> <<only_n_most_recent_images>>])

RequestOf(m, supplied) ==
    IF m = "POST" THEN BodyRequest(supplied) ELSE QueryRequest(supplied)

\* Lines 91-101: the arguments process_chat_request passes to sampling_loop.
SamplingLoopArgs(req, cfg) ==
    [system_prompt_suffix |->
        IF Truthy(req.system_prompt_suffix) THEN req.system_prompt_suffix ELSE "",
     model |-> cfg.model,
     provider |-> cfg.provider,
     api_key |-> cfg.api_key,
     only_n_most_recent_images |-> req.only_n_most_recent_images]

\* POST /chat: outcome of process_chat_request -> HTTP response.
chat_endpoint(outcome) ==
    IF outcome.ok THEN HttpOk(JsonString(<<"task done">>))
    ELSE HTTPException(500, outcome.exc)

\* GET /chat without the except clause turning a failure into a 500.
chat_get_endpoint_AlwaysDone(outcome) == HttpOk(JsonString(<<"done">>))

\* GET /chat
chat_get_endpoint(outcome) ==
    IF outcome.ok THEN HttpOk(JsonString(<<"done">>))
    ELSE HTTPException(500, outcome.exc)

\* health_check reporting what a chat request would fall back to.
health_check_ChatDefaults(e) ==
    Return([status |-> "healthy",
            provider |-> getenv(e, "API_PROVIDER", "anthropic"),
            model |-> getenv(e, "API_MODEL", "default-anthropic")])

\* health_check reading the environment without the "Not set" default.
health_check_NoDefault(e) ==
    Return([status |-> "healthy",
            provider |-> getenv(e, "API_PROVIDER", None),
            model |-> getenv(e, "API_MODEL", None)])

\* GET /health, lines 158-164: the outcome of health_check().
health_check(e) ==
    Return([status |-> "healthy",
            provider |-> getenv(e, "API_PROVIDER", "Not set"),
            model |-> getenv(e, "API_MODEL", "Not set")])

Endpoint(m, outcome) ==
    IF m = "POST" THEN chat_endpoint(outcome) ELSE chat_get_endpoint(outcome)

\* ------------------------------------------------------------------------
\* Provider and tool inputs
\* ------------------------------------------------------------------------

T1 == BetaTextBlock(<<"All done.">>)
T2 == DictText(<<"Working on it.">>)
U1 == BetaToolUseBlock("computer", "toolu_1")
U2 == DictToolUse("bash", "toolu_2")

\* Contents a provider turn may have: text and tool_use blocks in either
\* representation.
ProviderContents ==
    { <<T1>>, <<T2>>, <<U1>>, <<U2>>, <<T2, U1>>, <<U2, T1>>, <<U1, U2>>, <<T2, U2, T1>> }

\* str() of the exceptions a provider call raises.
ProviderErrors == { <<"Connection error.">>, <<"Error code: 429 - rate_limit_error">> }

\* The tool_use blocks of a turn's content, in order.
ToolUses(content) == SelectSeq(content, LAMBDA b : b.type = "tool_use")

\* ------------------------------------------------------------------------
\* State
\* ------------------------------------------------------------------------

VARIABLES
    env,                  \* process environment: variable name -> value or Unset
    defaultModels,        \* PROVIDER_TO_DEFAULT_MODEL_NAME
    pc,                   \* per request: "idle", "provider", "tool", "done"
    method,               \* per request: HTTP method
    messages,             \* per request: the conversation
    tools_used,           \* per request: closure list of process_chat_request
    api_exchanges,        \* per request: closure list of process_chat_request
    pending,              \* per request: tool_use blocks of the last turn not yet run
    tool_result_content,  \* per request: tool_result blocks collected for the turn
    providerCalls,        \* per request: provider calls issued
    toolRuns,             \* per request: tools executed
    firedTool,            \* per request: each tool_output_callback call: its arguments
                          \*   and whether it raised to the orchestrator
    firedApi,             \* per request: each api_response_callback call: its argument,
                          \*   the time, and whether it raised to the orchestrator
    result,               \* per request: outcome of process_chat_request (0 or 1)
    responses,            \* per request: HTTP responses sent
    clock,                \* wall clock read by datetime.now()
    config,               \* per request: the arguments passed to the orchestrator,
                          \*   the resolved configuration among them (0 or 1)
    request,              \* per request: the ChatRequest being processed (0 or 1)
    health,               \* outcome of the last GET /health (0 or 1)
    wsPc,                 \* per connection: where its handler is
    peer,                 \* per connection: "none", "open" or "closed"
    screen,               \* what the screen shows
    file,                 \* content of screenshot.jpg (0 or 1 image)
    frame,                \* per connection: compressed_img of the iteration (0 or 1)
    captured,             \* per connection: the image its last sct.shot grabbed (0 or 1)
    captures,             \* per connection: screen captures made
    sendAttempts,         \* per connection: websocket.send calls
    sent,                 \* per connection: messages delivered to the viewer
    lastSent              \* per connection: the last message delivered (0 or 1)

apiVars ==
    <<env, defaultModels, pc, method, messages, tools_used, api_exchanges, pending,
      tool_result_content, providerCalls, toolRuns, firedTool, firedApi, result, responses,
      clock, config, request, health>>

wsVars == <<wsPc, peer, screen, file, frame, captured, captures, sendAttempts, sent, lastSent>>

vars == <<apiVars, wsVars>>

\* Viewers that may connect to the streaming service.
Conns == {"v1", "v2"}

\* No viewer has connected.
WsInit ==
    /\ wsPc = [c \in Conns |-> "idle"]
    /\ peer = [c \in Conns |-> "none"]
    /\ screen = 0
    /\ file = <<>>
    /\ frame = [c \in Conns |-> <<>>]
    /\ captured = [c \in Conns |-> <<>>]
    /\ captures = [c \in Conns |-> 0]
    /\ sendAttempts = [c \in Conns |-> 0]
    /\ sent = [c \in Conns |-> 0]
    /\ lastSent = [c \in Conns |-> <<>>]

Envs ==
    [ANTHROPIC_API_KEY : KeyValues, API_PROVIDER : ProviderValues, API_MODEL : ModelValues]

ApiInit ==
    /\ env \in Envs
    /\ defaultModels \in DefaultTables
    /\ pc = [r \in Reqs |-> "idle"]
    /\ method = [r \in Reqs |-> None]
    /\ messages = [r \in Reqs |-> <<>>]
    /\ tools_used = [r \in Reqs |-> <<>>]
    /\ api_exchanges = [r \in Reqs |-> <<>>]
    /\ pending = [r \in Reqs |-> <<>>]
    /\ tool_result_content = [r \in Reqs |-> <<>>]
    /\ providerCalls = [r \in Reqs |-> 0]
    /\ toolRuns = [r \in Reqs |-> 0]
    /\ firedTool = [r \in Reqs |-> <<>>]
    /\ firedApi = [r \in Reqs |-> <<>>]
    /\ result = [r \in Reqs |-> <<>>]
    /\ responses = [r \in Reqs |-> <<>>]
    /\ clock = 0
    /\ config = [r \in Reqs |-> <<>>]
    /\ request = [r \in Reqs |-> <<>>]
    /\ health = <<>>

Init == ApiInit /\ WsInit

\* Recorder lists created once at module level and shared by all requests.
Recorder_Shared(r) == "r1"

\* Lines 67-69: tools_used and api_exchanges are created by each invocation
\* of process_chat_request and captured by its two callbacks, so the lists a
\* request's callbacks append to are that request's own.
Recorder(r) == r

\* process_chat_request returns or raises; the endpoint turns the outcome
\* into the HTTP response (no suspend point in between).
Finish(r, m, outcome) ==
    /\ result' = [result EXCEPT ![r] = <<outcome>>]
    /\ responses' = [responses EXCEPT ![r] = Append(@, Endpoint(m, outcome))]
    /\ pc' = [pc EXCEPT ![r] = "done"]

\* A request arrives; the handler runs up to the first provider call.
ChatStartFrom(r, methods, clients) ==
    /\ pc[r] = "idle"
    /\ \E m \in methods, supplied \in clients :
          LET req == RequestOf(m, supplied)
              cfg == ResolveConfig(env, defaultModels)
          IN  /\ method' = [method EXCEPT ![r] = m]
              /\ request' = [request EXCEPT ![r] = <<req>>]
              /\ config' = [config EXCEPT ![r] =
                                IF cfg.ok THEN <<SamplingLoopArgs(req, cfg.value[1])>> ELSE <<>>]
              /\ IF cfg.ok
                 THEN /\ messages' = [messages EXCEPT ![r] =
                                         <<Turn("user", <<DictText(<<req.message>>)>>)>>]
                      /\ pc' = [pc EXCEPT ![r] = "provider"]
                      /\ UNCHANGED <<result, responses>>
                 ELSE /\ Finish(r, m, Raise(cfg.exc))
                      /\ UNCHANGED messages
    /\ UNCHANGED <<env, defaultModels, tools_used, api_exchanges, pending,
                   tool_result_content, providerCalls, toolRuns, firedTool, firedApi, clock,
                   health, wsVars>>

\* Step 5 of the orchestrator with the test dropped: the run always ends
\* with the turn just received.
LoopContinues_Never(content) == FALSE

\* Step 5 of the orchestrator: the loop goes on exactly when the turn just
\* received has a tool_use block.
LoopContinues(content) == ToolUses(content) # <<>>

\* The provider answers: record the exchange, append the assistant turn,
\* then either start on its tool_use blocks or return the conversation, in
\* which case process_chat_request assembles the transcript and returns.
\* An exception of the callback would leave the orchestrator.
ProviderReturnsFrom(r, shapes, contents) ==
    /\ pc[r] = "provider"
    /\ \E shape \in shapes, content \in contents :
          LET raw == MakeRaw(shape, content)
              cb == api_response_callback(api_exchanges[Recorder(r)], raw, clock)
              msgs == Append(messages[r], Turn("assistant", content))
          IN  /\ providerCalls[r] + 1 < MaxCalls \/ ToolUses(content) = <<>>
              /\ providerCalls' = [providerCalls EXCEPT ![r] = @ + 1]
              /\ clock' = clock + 1
              /\ firedApi' = [firedApi EXCEPT ![r] = Append(@, [response |-> raw, at |-> clock, raised |-> ~cb.ok])]
              /\ IF ~cb.ok
                 THEN /\ Finish(r, method[r], Raise(cb.exc))
                      /\ UNCHANGED <<api_exchanges, messages, pending, tool_result_content>>
                 ELSE /\ api_exchanges' = [api_exchanges EXCEPT ![Recorder(r)] = cb.value[1]]
                      /\ messages' = [messages EXCEPT ![r] = msgs]
                      /\ pending' = [pending EXCEPT ![r] = ToolUses(content)]
                      /\ tool_result_content' = [tool_result_content EXCEPT ![r] = <<>>]
                      /\ IF ~LoopContinues(content)
                         THEN Finish(r, method[r],
                                     Return(ChatResponse(msgs, tools_used[Recorder(r)], cb.value[1])))
                         ELSE /\ pc' = [pc EXCEPT ![r] = "tool"]
                              /\ UNCHANGED <<result, responses>>
    /\ UNCHANGED <<env, defaultModels, method, tools_used, toolRuns, firedTool,
                   config, request, health, wsVars>>

\* The provider call raises: the error ends the orchestrator run.
ProviderFails(r) ==
    /\ pc[r] = "provider"
    /\ \E err \in ProviderErrors :
          /\ providerCalls' = [providerCalls EXCEPT ![r] = @ + 1]
          /\ Finish(r, method[r], Raise(err))
    /\ UNCHANGED <<env, defaultModels, method, messages, tools_used, api_exchanges, pending,
                   tool_result_content, toolRuns, firedTool, firedApi, clock,
                   config, request, health, wsVars>>

\* The tool of the next tool_use block returns: the tool-output callback
\* fires and the tool_result is collected; after the last block the results
\* become a user turn and the next provider call is issued.
ToolReturnsFrom(r, outs) ==
    /\ pc[r] = "tool"
    /\ \E out \in outs :
          LET block == Head(pending[r])
              cb == tool_output_callback(tools_used[Recorder(r)], out, block.id)
              results == Append(tool_result_content[r], DictToolResult(block.id, <<out.output, out.error>>))
          IN  /\ toolRuns' = [toolRuns EXCEPT ![r] = @ + 1]
              /\ firedTool' = [firedTool EXCEPT ![r] = Append(@, [tool_id |-> block.id, tool_output |-> out, raised |-> ~cb.ok])]
              /\ IF cb.ok
                 THEN /\ tools_used' = [tools_used EXCEPT ![Recorder(r)] = cb.value[1]]
                      /\ tool_result_content' = [tool_result_content EXCEPT ![r] = results]
                      /\ pending' = [pending EXCEPT ![r] = Tail(@)]
                      /\ IF Tail(pending[r]) = <<>>
                         THEN /\ messages' = [messages EXCEPT ![r] = Append(@, Turn("user", results))]
                              /\ pc' = [pc EXCEPT ![r] = "provider"]
                         ELSE UNCHANGED <<messages, pc>>
                      /\ UNCHANGED <<result, responses>>
                 ELSE /\ Finish(r, method[r], Raise(cb.exc))
                      /\ UNCHANGED <<messages, tools_used, tool_result_content, pending>>
    /\ UNCHANGED <<env, defaultModels, method, api_exchanges, providerCalls, firedApi, clock,
                   config, request, health, wsVars>>

ChatStart(r) == ChatStartFrom(r, Methods, MessageOnly)
ProviderReturns(r) == ProviderReturnsFrom(r, RawShapes, ProviderContents)
ToolReturns(r) == ToolReturnsFrom(r, ToolResults)

\* GET /health is served: it reads the environment and answers.
HealthCheck ==
    /\ health' = <<health_check(env)>>
    /\ UNCHANGED <<env, defaultModels, pc, method, messages, tools_used, api_exchanges, pending,
                   tool_result_content, providerCalls, toolRuns, firedTool, firedApi, result,
                   responses, clock, config, request, wsVars>>

\* One request, every input.
Next ==
    \/ ChatStart("r1")
    \/ ProviderReturns("r1")
    \/ ProviderFails("r1")
    \/ ToolReturns("r1")
    \/ HealthCheck

Spec == Init /\ [][Next]_vars

\* Two requests in progress at once, interleaved at the suspend points
\* (provider call in flight, tool running), with a configured environment.
ConcContents == { <<T1>>, <<U2>> }
ConcShapes == {"ok", "no_request"}
ConcClients ==
    { s \in Supplied : (s.system_prompt_suffix = <<>>) = (s.only_n_most_recent_images = <<>>) }
ConcToolResults == { ToolResult("screenshot taken", "", TRUE), ToolResult("", "", FALSE) }

InitConc ==
    /\ Init
    /\ env.API_PROVIDER = Unset
    /\ env.API_MODEL = "my-model"
    /\ defaultModels["bedrock"] # None

ConcChatStart(r) == ChatStartFrom(r, Methods, ConcClients)
ConcProviderReturns(r) == ProviderReturnsFrom(r, ConcShapes, ConcContents)
ConcToolReturns(r) == ToolReturnsFrom(r, ConcToolResults)

NextConc ==
    \E r \in Reqs :
        \/ ConcChatStart(r)
        \/ ConcProviderReturns(r)
        \/ ProviderFails(r)
        \/ ConcToolReturns(r)

SpecConc == InitConc /\ [][NextConc]_vars

\* ------------------------------------------------------------------------
\* Properties of the chat API
\* ------------------------------------------------------------------------

Finished(r) == result[r] # <<>>
Succeeded(r) == Finished(r) /\ result[r][1].ok
Failed(r) == Finished(r) /\ ~result[r][1].ok
Payload(r) == result[r][1].value[1]

\* C1: a POST /chat request processed without failure answers with the
\* payload {full_response, tools_used, api_exchanges} that
\* process_chat_request built for it.
C1_PostReturnsPayload ==
    \A r \in Reqs :
        (method[r] = "POST" /\ Succeeded(r)) => responses[r] = <<HttpOk(JsonObject(Payload(r)))>>

KeyEmpty == env.ANTHROPIC_API_KEY \in {Unset, ""}

ModelUnresolved ==
    /\ env.API_MODEL \in {Unset, ""}
    /\ \/ env.API_PROVIDER = Unset /\ defaultModels["anthropic"] \in {None, ""}
       \/ env.API_PROVIDER # Unset /\ env.API_PROVIDER \notin APIProvider
       \/ env.API_PROVIDER \in APIProvider /\ defaultModels[env.API_PROVIDER] \in {None, ""}

ConfigurationErrors == {NoKeyMsg, NoModelMsg} \cup {InvalidProviderMsg(p) : p \in ProviderValues}

NeverStarted(r) ==
    /\ providerCalls[r] = 0
    /\ toolRuns[r] = 0
    /\ firedTool[r] = <<>>
    /\ firedApi[r] = <<>>
    /\ messages[r] = <<>>
    /\ tools_used[r] = <<>>
    /\ api_exchanges[r] = <<>>

\* C2: a chat request (GET or POST) handled with an empty or unset
\* credential, or with an unresolved model, ends in a configuration error
\* and never starts the orchestrator: no provider call, no tool execution,
\* no recorder callback.
C2_FailFast ==
    \A r \in Reqs :
        (pc[r] # "idle" /\ (KeyEmpty \/ ModelUnresolved)) =>
            /\ pc[r] = "done"
            /\ Failed(r)
            /\ result[r][1].exc \in ConfigurationErrors
            /\ NeverStarted(r)

C2_Witness ==
    /\ pc["r1"] = "done"
    /\ ~KeyEmpty
    /\ ModelUnresolved
    /\ env.API_PROVIDER = "bedrock"
    /\ result["r1"][1].exc = NoModelMsg

\* C3: for GET /chat and POST /chat alike, a request whose handling failed
\* (configuration error, provider error) has sent exactly one response, the
\* 500 error response carrying the message of the failure; a request that
\* has answered 200 did not fail, and no request has finished without a
\* response.
C3_FailureIs500 ==
    \A r \in Reqs :
        /\ Failed(r) => responses[r] = <<HTTPException(500, result[r][1].exc)>>
        /\ Finished(r) => Len(responses[r]) = 1
        /\ (pc[r] = "done") = Finished(r)
        /\ \A i \in 1..Len(responses[r]) : responses[r][i].status = 200 => Succeeded(r)

C3_Witness ==
    /\ method["r1"] = "GET"
    /\ Failed("r1")
    /\ result["r1"][1].exc \in ProviderErrors
    /\ providerCalls["r1"] = 2
    /\ responses["r1"][1].status = 500

\* All blocks of the assistant turns of a conversation, in order.
RECURSIVE AssistantBlocks(_)
AssistantBlocks(msgs) ==
    IF msgs = <<>> THEN <<>>
    ELSE (IF Head(msgs).role = "assistant" THEN Head(msgs).content ELSE <<>>)
         \o AssistantBlocks(Tail(msgs))

\* What the blocks are expected to leave in the transcript, decoration
\* aside: a text block its string, a tool_use block a marker with its name.
RECURSIVE ExpectedSkeleton(_)
ExpectedSkeleton(blocks) ==
    IF blocks = <<>> THEN <<>>
    ELSE (IF Head(blocks).type = "text" THEN Head(blocks).text
          ELSE IF Head(blocks).type = "tool_use" THEN <<"Tool Used: ", Head(blocks).name>>
          ELSE <<>>)
         \o ExpectedSkeleton(Tail(blocks))

ToolIds == {"toolu_1", "toolu_2"}
Decoration == Whitespace \cup {" (ID: ", ")"} \cup ToolIds

Skeleton(transcript) == SelectSeq(transcript, LAMBDA t : t \notin Decoration)

\* Marker tokens that start a line of the transcript.
MarkerLines(transcript) ==
    { i \in 1..Len(transcript) :
        transcript[i] = "Tool Used: " /\ (i = 1 \/ transcript[i - 1] = "\n") }

\* C4: the transcript of a final conversation has exactly one tool-marker
\* line per tool_use block of the assistant turns, markers and text strings
\* come in the order of their blocks, and user turns (the request message,
\* the tool_result blocks) contribute nothing.
C4_MarkersInOrder ==
    \A r \in Reqs :
        Succeeded(r) =>
            LET transcript == Payload(r).full_response
                blocks == AssistantBlocks(messages[r])
            IN  /\ Cardinality(MarkerLines(transcript)) = Len(ToolUses(blocks))
                /\ Skeleton(transcript) = ExpectedSkeleton(blocks)

C4_Witness ==
    /\ Succeeded("r1")
    /\ Len(messages["r1"]) = 4
    /\ messages["r1"][2].content = <<U1, U2>>
    /\ messages["r1"][3].role = "user"
    /\ messages["r1"][4].content = <<T2>>
    /\ Cardinality(MarkerLines(Payload("r1").full_response)) = 2

\* The same block in the other representation: a plain mapping for a typed
\* object, a typed object for a plain mapping.
OtherRepresentation(b) ==
    IF b.cls = "dict"
    THEN IF b.type = "text" THEN BetaTextBlock(b.text) ELSE BetaToolUseBlock(b.name, b.id)
    ELSE IF b.type = "text" THEN DictText(b.text) ELSE DictToolUse(b.name, b.id)

\* C5: every text or tool_use block of a final conversation adds the same
\* fragment to the transcript whether it is a typed object or a plain
\* mapping with the same text, or the same tool name and invocation id.
C5_SameFragmentForBothShapes ==
    \A r \in Reqs :
        Succeeded(r) =>
            LET blocks == AssistantBlocks(messages[r])
            IN  \A i \in 1..Len(blocks) :
                    BlockFragment(blocks[i]) = BlockFragment(OtherRepresentation(blocks[i]))

\* The fired tool-output callbacks whose output rendered, and the fired
\* api-response callbacks whose exchange is well formed.
Rendered(fired) == SelectSeq(fired, LAMBDA f : f.tool_output.renders)
WellFormed(raw) == raw.http_request # <<>> /\ raw.status_code # <<>>
Recordable(fired) == SelectSeq(fired, LAMBDA f : WellFormed(f.response))

IsRecordOfTool(rec, f) ==
    /\ rec.tool_id = f.tool_id
    /\ rec.output[2] = f.tool_output.output
    /\ rec.output[4] = f.tool_output.error

IsRecordOfExchange(rec, f) ==
    /\ rec.response_text = f.response.text
    /\ rec.response_status_code = f.response.status_code[1]
    /\ rec.timestamp = f.at

OwnRecords(r) ==
    /\ Len(tools_used[r]) = Len(Rendered(firedTool[r]))
    /\ \A i \in 1..Len(tools_used[r]) : IsRecordOfTool(tools_used[r][i], Rendered(firedTool[r])[i])
    /\ Len(api_exchanges[r]) = Len(Recordable(firedApi[r]))
    /\ \A i \in 1..Len(api_exchanges[r]) :
          IsRecordOfExchange(api_exchanges[r][i], Recordable(firedApi[r])[i])

\* C6: with two requests in progress at once, the tools_used and
\* api_exchanges of each request, and of the payload built for it, are
\* exactly the records of the callbacks its own orchestrator run fired, and
\* no exchange record of one request appears in another request's list.
C6_RecordsAreOwn ==
    \A r \in Reqs :
        /\ OwnRecords(r)
        /\ Succeeded(r) =>
              /\ Payload(r).tools_used = tools_used[r]
              /\ Payload(r).api_exchanges = api_exchanges[r]
        /\ \A q \in Reqs \ {r} :
              \A i \in 1..Len(api_exchanges[r]), j \in 1..Len(api_exchanges[q]) :
                  api_exchanges[r][i] # api_exchanges[q][j]

C6_Witness ==
    /\ Succeeded("r1")
    /\ Succeeded("r2")
    /\ Len(tools_used["r1"]) = 1
    /\ Len(tools_used["r2"]) = 1
    /\ Len(api_exchanges["r1"]) = 2
    /\ Len(api_exchanges["r2"]) = 2
    /\ api_exchanges["r1"][1].timestamp < api_exchanges["r2"][1].timestamp
    /\ api_exchanges["r2"][2].timestamp < api_exchanges["r1"][2].timestamp

Last(seq) == seq[Len(seq)]
AppendsOne(old, new) == Len(new) = Len(old) + 1 /\ SubSeq(new, 1, Len(old)) = old

\* C7: within one request the recorder is append-only and order-preserving:
\* a step leaves each list as it was or adds, at its end, one record, which
\* is the record of the callback that fired in that step; the exchange
\* records carry increasing timestamps.
C7_AppendOnlyInOrder ==
    [][\A r \in Reqs :
          /\ \/ tools_used'[r] = tools_used[r]
             \/ /\ AppendsOne(tools_used[r], tools_used'[r])
                /\ AppendsOne(firedTool[r], firedTool'[r])
                /\ IsRecordOfTool(Last(tools_used'[r]), Last(firedTool'[r]))
          /\ \/ api_exchanges'[r] = api_exchanges[r]
             \/ /\ AppendsOne(api_exchanges[r], api_exchanges'[r])
                /\ AppendsOne(firedApi[r], firedApi'[r])
                /\ IsRecordOfExchange(Last(api_exchanges'[r]), Last(firedApi'[r]))
          /\ \A i, j \in 1..Len(api_exchanges[r]) :
                i < j => api_exchanges[r][i].timestamp < api_exchanges[r][j].timestamp
      ]_vars

C7_Witness ==
    /\ Len(tools_used["r1"]) = 2
    /\ tools_used["r1"][1].tool_id = "toolu_1"
    /\ tools_used["r1"][2].tool_id = "toolu_2"
    /\ Len(api_exchanges["r1"]) = 2
    /\ api_exchanges["r1"][1].response_text = <<U1, U2>>
    /\ api_exchanges["r1"][2].response_text = <<T1>>

\* C8: when the api-response callback fires with an exchange whose
\* normalization fails, api_exchanges stays exactly as it was, no exception
\* reaches the orchestrator (the run goes on with the assistant turn
\* appended), and a well-formed exchange, also a later one, adds a record.
C8_FailedExchangeDropped ==
    [][\A r \in Reqs :
          AppendsOne(firedApi[r], firedApi'[r]) =>
              IF WellFormed(Last(firedApi'[r]).response)
              THEN AppendsOne(api_exchanges[r], api_exchanges'[r])
              ELSE /\ api_exchanges'[r] = api_exchanges[r]
                   /\ ~Last(firedApi'[r]).raised
                   /\ result'[r] = <<>> \/ result'[r][1].ok
                   /\ AppendsOne(messages[r], messages'[r])
      ]_vars

C8_Witness ==
    /\ Len(firedApi["r1"]) = 2
    /\ firedApi["r1"][1].response.http_request = <<>>
    /\ WellFormed(firedApi["r1"][2].response)
    /\ Len(api_exchanges["r1"]) = 1
    /\ api_exchanges["r1"][1].timestamp = firedApi["r1"][2].at
    /\ Succeeded("r1")

\* C9: a failure to render or append a tool output record is swallowed: no
\* tool-output callback raises to the orchestrator, and no request ends
\* with the exception of the tool-output callback.
C9_ToolRecordingFailureSwallowed ==
    \A r \in Reqs :
        /\ \A i \in 1..Len(firedTool[r]) : ~firedTool[r][i].raised
        /\ Failed(r) => result[r][1].exc # StrFailure

\* ------------------------------------------------------------------------
\* Frame Capture Service (ws.py)
\* ------------------------------------------------------------------------

\* Iterations one capture loop makes.
MaxFrames == 2

TargetWidth == 640
Quality == 80

\* What the screen may show.
Screens == {0, 1}

\* sct.shot(output="screenshot.jpg", mon=-1): the image written to the file.
Shot(scr) == [content |-> scr, width |-> 1920, height |-> 1080]

\* img.resize((640, int(640 * img.height / img.width)))
Resize(img) ==
    [content |-> img.content, width |-> TargetWidth,
     height |-> (TargetWidth * img.height) \div img.width]

\* img.save(buffer, format="JPEG", quality=80); buffer.getvalue()
Encode(img) == [format |-> "JPEG", quality |-> Quality, image |-> img]

\* The except clause inside the loop: the loop goes on after a failed send.
AfterConnectionClosed_Retry == "sleep"

\* Lines 30-35: the except clause encloses the while loop, so a
\* ConnectionClosed raised by the send ends the loop and the handler returns.
AfterConnectionClosed == "returned"

\* A viewer connects and its handler is started.
WsConnect(c) ==
    /\ wsPc[c] = "idle"
    /\ wsPc' = [wsPc EXCEPT ![c] = "capture"]
    /\ peer' = [peer EXCEPT ![c] = "open"]
    /\ UNCHANGED <<apiVars, screen, file, frame, captured, captures, sendAttempts, sent, lastSent>>

\* send_screenshot suspending after the capture: the file is written in one
\* step and read back, resized and encoded in a later one.
WsCapture_Suspends(c) ==
    /\ wsPc[c] = "capture"
    /\ \/ /\ captures[c] = sendAttempts[c]
          /\ captures[c] < MaxFrames
          /\ captured' = [captured EXCEPT ![c] = <<Shot(screen)>>]
          /\ file' = captured'[c]
          /\ captures' = [captures EXCEPT ![c] = @ + 1]
          /\ UNCHANGED <<wsPc, frame>>
       \/ /\ captures[c] > sendAttempts[c]
          /\ frame' = [frame EXCEPT ![c] = <<Encode(Resize(file[1]))>>]
          /\ wsPc' = [wsPc EXCEPT ![c] = "send"]
          /\ UNCHANGED <<file, captured, captures>>
    /\ UNCHANGED <<apiVars, peer, screen, sendAttempts, sent, lastSent>>

\* send_screenshot, lines 12-22: capture to screenshot.jpg, open the file,
\* resize, encode.  Nothing suspends between the capture and the encoding.
WsCapture(c) ==
    /\ wsPc[c] = "capture"
    /\ captures[c] < MaxFrames
    /\ captured' = [captured EXCEPT ![c] = <<Shot(screen)>>]
    /\ file' = captured'[c]
    /\ frame' = [frame EXCEPT ![c] = <<Encode(Resize(file'[1]))>>]
    /\ captures' = [captures EXCEPT ![c] = @ + 1]
    /\ wsPc' = [wsPc EXCEPT ![c] = "send"]
    /\ UNCHANGED <<apiVars, peer, screen, sendAttempts, sent, lastSent>>

\* The capture raises (no display, file error): the handler catches only
\* ConnectionClosed, so the exception leaves it.
WsCaptureFails(c) ==
    /\ wsPc[c] = "capture"
    /\ wsPc' = [wsPc EXCEPT ![c] = "raised"]
    /\ UNCHANGED <<apiVars, peer, screen, file, frame, captured, captures, sendAttempts, sent, lastSent>>

\* A delivered send that goes straight on to the next capture.
WsSendDelivered_NoSleep(c) ==
    /\ wsPc[c] = "send"
    /\ peer[c] = "open"
    /\ sendAttempts' = [sendAttempts EXCEPT ![c] = @ + 1]
    /\ sent' = [sent EXCEPT ![c] = @ + 1]
    /\ lastSent' = [lastSent EXCEPT ![c] = frame[c]]
    /\ wsPc' = [wsPc EXCEPT ![c] = "capture"]
    /\ UNCHANGED <<apiVars, peer, screen, file, frame, captured, captures>>

\* Line 25, the connection is open: the frame is delivered.
WsSendDelivered(c) ==
    /\ wsPc[c] = "send"
    /\ peer[c] = "open"
    /\ sendAttempts' = [sendAttempts EXCEPT ![c] = @ + 1]
    /\ sent' = [sent EXCEPT ![c] = @ + 1]
    /\ lastSent' = [lastSent EXCEPT ![c] = frame[c]]
    /\ wsPc' = [wsPc EXCEPT ![c] = "sleep"]
    /\ UNCHANGED <<apiVars, peer, screen, file, frame, captured, captures>>

\* A ConnectionClosed of one viewer that stops every running capture loop.
WsSendClosed_StopsAll(c) ==
    /\ wsPc[c] = "send"
    /\ peer[c] = "closed"
    /\ sendAttempts' = [sendAttempts EXCEPT ![c] = @ + 1]
    /\ wsPc' = [d \in Conns |-> IF wsPc[d] = "idle" THEN "idle" ELSE "returned"]
    /\ UNCHANGED <<apiVars, peer, screen, file, frame, captured, captures, sent, lastSent>>

\* Line 25, the peer has closed the connection: send raises ConnectionClosed.
WsSendClosed(c) ==
    /\ wsPc[c] = "send"
    /\ peer[c] = "closed"
    /\ sendAttempts' = [sendAttempts EXCEPT ![c] = @ + 1]
    /\ wsPc' = [wsPc EXCEPT ![c] = AfterConnectionClosed]
    /\ UNCHANGED <<apiVars, peer, screen, file, frame, captured, captures, sent, lastSent>>

\* Line 33: the 500 ms sleep is over.
WsWake(c) ==
    /\ wsPc[c] = "sleep"
    /\ wsPc' = [wsPc EXCEPT ![c] = "capture"]
    /\ UNCHANGED <<apiVars, peer, screen, file, frame, captured, captures, sendAttempts, sent, lastSent>>

\* The viewer closes its connection.
WsPeerCloses(c) ==
    /\ peer[c] = "open"
    /\ peer' = [peer EXCEPT ![c] = "closed"]
    /\ UNCHANGED <<apiVars, wsPc, screen, file, frame, captured, captures, sendAttempts, sent, lastSent>>

\* The screen shows something else.
ScreenChanges ==
    /\ screen' \in Screens \ {screen}
    /\ UNCHANGED <<apiVars, wsPc, peer, file, frame, captured, captures, sendAttempts, sent, lastSent>>

\* The streaming service alone; no chat request arrives.
InitWs ==
    /\ ApiInit
    /\ env = [ANTHROPIC_API_KEY |-> Unset, API_PROVIDER |-> Unset, API_MODEL |-> Unset]
    /\ defaultModels["bedrock"] # None
    /\ WsInit

NextWs ==
    \/ \E c \in Conns :
          \/ WsConnect(c)
          \/ WsCapture(c)
          \/ WsCaptureFails(c)
          \/ WsSendDelivered(c)
          \/ WsSendClosed(c)
          \/ WsWake(c)
          \/ WsPeerCloses(c)
    \/ ScreenChanges

SpecWs == InitWs /\ [][NextWs]_vars

\* C10: a send that fails because the peer closed the connection makes the
\* handler return, not raise, and a handler that has returned stays
\* returned and makes no further capture and no further send.
C10_DisconnectedIsTerminal ==
    [][\A c \in Conns :
          /\ (wsPc[c] = "send" /\ peer[c] = "closed" /\ wsPc'[c] # "send")
                => wsPc'[c] = "returned"
          /\ wsPc[c] = "returned"
                => /\ wsPc'[c] = "returned"
                   /\ captures'[c] = captures[c]
                   /\ sendAttempts'[c] = sendAttempts[c]
                   /\ sent'[c] = sent[c]
      ]_vars

C10_Witness ==
    /\ wsPc["v1"] = "returned"
    /\ peer["v1"] = "closed"
    /\ sent["v1"] = 1
    /\ sendAttempts["v1"] = 2
    /\ captures["v1"] = 2
    /\ wsPc["v2"] = "send"

\* The capture loop of connection c, as its handler and its viewer see it.
LoopState(c) == <<wsPc[c], peer[c], frame[c], captures[c], sendAttempts[c], sent[c], lastSent[c]>>

\* C11: with several viewers connected, every connection has its own
\* capture loop, and a step of one connection (its handler's step, its
\* viewer's disconnection, its failed send) changes the loop of no other
\* connection: the other loops stay where they are and go on from there.
C11_LoopsIndependent ==
    [][\A c \in Conns :
          LoopState(c)' # LoopState(c) =>
              \A d \in Conns \ {c} :
                  LoopState(d)' = LoopState(d)
      ]_vars

C11_Witness ==
    /\ wsPc["v1"] = "returned"
    /\ sent["v1"] = 0
    /\ peer["v2"] = "open"
    /\ wsPc["v2"] = "sleep"
    /\ sent["v2"] = 2

AssistantTurns(msgs) == SelectSeq(msgs, LAMBDA m : m.role = "assistant")

\* C12: a run that returned made one provider call per assistant turn, all
\* turns but the last have a tool_use block and the last has none (one more
\* call than turns with tool use), and ran one tool per tool_use block.  One
\* pure-text turn: one call.  One tool call, then text: two calls, one tool
\* execution, and the transcript is the tool marker followed by the text.
C12_CallsAndTermination ==
    \A r \in Reqs :
        Succeeded(r) =>
            LET turns == AssistantTurns(messages[r])
                n == Len(turns)
                withTools == { i \in 1..n : ToolUses(turns[i].content) # <<>> }
            IN  /\ providerCalls[r] = n
                /\ withTools = 1..(n - 1)
                /\ providerCalls[r] = Cardinality(withTools) + 1
                /\ toolRuns[r] = Len(ToolUses(AssistantBlocks(messages[r])))
                /\ (n = 1) = (toolRuns[r] = 0)
                /\ (n = 2 /\ turns[1].content = <<U1>> /\ turns[2].content = <<T1>>) =>
                      /\ toolRuns[r] = 1
                      /\ Payload(r).full_response =
                            <<"Tool Used: ", "computer", " (ID: ", "toolu_1", ")", "\n", "All done.">>

C12_Witness ==
    /\ Succeeded("r1")
    /\ providerCalls["r1"] = 2
    /\ toolRuns["r1"] = 1
    /\ AssistantTurns(messages["r1"]) = <<Turn("assistant", <<U1>>), Turn("assistant", <<T1>>)>>

\* What GET /health last reported.
Reported == health[1].value[1]

\* C13 as claimed: the provider and model GET /health reports are those a
\* chat request handled under the same configuration resolved and uses.
C13_HealthReportsResolved ==
    \A r \in Reqs :
        (health # <<>> /\ config[r] # <<>>) =>
            /\ Reported.provider = config[r][1].provider
            /\ Reported.model = config[r][1].model

\* C13 amended: GET /health reports the values of API_PROVIDER and
\* API_MODEL as set in the environment, "Not set" for one that is unset; the
\* provider agrees with the one a chat request resolved when API_PROVIDER is
\* set, the model when API_MODEL is set and not empty; serving it changes
\* nothing but the answer.
C13_HealthReportsEnvironment ==
    [][/\ health' # <<>> =>
            /\ health'[1].ok
            /\ Reported'.status = "healthy"
            /\ Reported'.provider = (IF env'.API_PROVIDER = Unset THEN "Not set" ELSE env'.API_PROVIDER)
            /\ Reported'.model = (IF env'.API_MODEL = Unset THEN "Not set" ELSE env'.API_MODEL)
            /\ \A r \in Reqs :
                  config'[r] # <<>> =>
                      /\ env'.API_PROVIDER # Unset => Reported'.provider = config'[r][1].provider
                      /\ env'.API_MODEL \notin {Unset, ""} => Reported'.model = config'[r][1].model
       /\ health' # health =>
            UNCHANGED <<env, defaultModels, pc, method, messages, tools_used, api_exchanges,
                        pending, tool_result_content, providerCalls, toolRuns, firedTool,
                        firedApi, result, responses, clock, config, request, wsVars>>
      ]_vars

C13_Witness ==
    /\ health # <<>>
    /\ config["r1"] # <<>>
    /\ env.API_PROVIDER = Unset
    /\ env.API_MODEL = ""
    /\ Reported.provider = "Not set"
    /\ config["r1"][1].provider = "anthropic"
    /\ Reported.model = ""
    /\ config["r1"][1].model = "default-anthropic"
    /\ pc["r1"] = "tool"

\* C16: GET /health served when neither API_PROVIDER nor API_MODEL is set
\* does not raise and answers status "healthy", provider "Not set", model
\* "Not set".
C16_HealthWhenUnconfigured ==
    (health # <<>> /\ env.API_PROVIDER = Unset /\ env.API_MODEL = Unset) =>
        /\ health[1].ok
        /\ health[1].exc = <<>>
        /\ health[1].value = <<[status |-> "healthy", provider |-> "Not set", model |-> "Not set"]>>

C16_Witness ==
    /\ health # <<>>
    /\ env.API_PROVIDER = Unset
    /\ env.API_MODEL = Unset
    /\ env.ANTHROPIC_API_KEY = Unset
    /\ Failed("r1")

\* Position of the k-th tool-marker line of a transcript.
MarkerAt(transcript, k) ==
    CHOOSE i \in MarkerLines(transcript) :
        Cardinality({ j \in MarkerLines(transcript) : j <= i }) = k

\* The line that starts at position i, up to its line break.
RECURSIVE LineFrom(_, _)
LineFrom(transcript, i) ==
    IF i > Len(transcript) \/ transcript[i] = "\n" THEN <<>>
    ELSE <<transcript[i]>> \o LineFrom(transcript, i + 1)

\* C14: in the transcript of a final conversation the k-th tool-marker line
\* carries the tool name and the invocation id of the k-th tool_use block,
\* for a typed block and for a plain mapping alike.
C14_MarkerNamesToolAndId ==
    \A r \in Reqs :
        Succeeded(r) =>
            LET transcript == Payload(r).full_response
                uses == ToolUses(AssistantBlocks(messages[r]))
            IN  /\ Cardinality(MarkerLines(transcript)) = Len(uses)
                /\ \A k \in 1..Len(uses) :
                      LET line == LineFrom(transcript, MarkerAt(transcript, k))
                      IN  /\ \E j \in 1..Len(line) : line[j] = uses[k].name
                          /\ \E j \in 1..Len(line) : line[j] = uses[k].id

\* A record of an exchange without the time it was made.
Untimed(rec) == [f \in DOMAIN rec \ {"timestamp"} |-> rec[f]]
UntimedAll(recs) == [i \in 1..Len(recs) |-> Untimed(recs[i])]

\* What the provider and the tools did for a request: the raw responses
\* the provider returned, the outputs the tools returned, the calls made.
Behaviour(r) ==
    [responses |-> [i \in 1..Len(firedApi[r]) |-> firedApi[r][i].response],
     outputs |-> [i \in 1..Len(firedTool[r]) |-> firedTool[r][i].tool_output],
     calls |-> providerCalls[r]]

\* The last provider call of the request raised.
ProviderFailed(r) == providerCalls[r] > Len(firedApi[r])

SameInputs(r, q) ==
    /\ request[r] # <<>>
    /\ request[r] = request[q]
    /\ Behaviour(r) = Behaviour(q)
    /\ ProviderFailed(r) => result[r][1].exc = result[q][1].exc

\* The outcome of process_chat_request, time stamps aside.
UntimedOutcome(r) ==
    IF result[r] = <<>> THEN <<>>
    ELSE <<[ok |-> result[r][1].ok,
            exc |-> result[r][1].exc,
            value |-> IF result[r][1].ok
                      THEN <<[full_response |-> Payload(r).full_response,
                              tools_used |-> Payload(r).tools_used,
                              api_exchanges |-> UntimedAll(Payload(r).api_exchanges)]>>
                      ELSE <<>>]>>

\* Everything the processing of a request has done so far: configuration
\* resolution, orchestrator run, recording, outcome, and the status and
\* detail of the answer.
Processing(r) ==
    [pc |-> pc[r],
     config |-> config[r],
     messages |-> messages[r],
     pending |-> pending[r],
     tool_result_content |-> tool_result_content[r],
     toolRuns |-> toolRuns[r],
     tools_used |-> tools_used[r],
     api_exchanges |-> UntimedAll(api_exchanges[r]),
     raisedTool |-> [i \in 1..Len(firedTool[r]) |-> firedTool[r][i].raised],
     raisedApi |-> [i \in 1..Len(firedApi[r]) |-> firedApi[r][i].raised],
     outcome |-> UntimedOutcome(r),
     answered |-> [i \in 1..Len(responses[r]) |->
                      [status |-> responses[r][i].status, detail |-> responses[r][i].detail]]]

\* C15: GET /chat builds the same ChatRequest as POST /chat from the same
\* message, system_prompt_suffix and only_n_most_recent_images; a GET and a
\* POST request with the same request and the same provider and tool
\* behaviour have done the same processing; and a GET request that
\* succeeded answered the string "done", whatever payload was computed.
C15_GetSameProcessingAsPost ==
    /\ \A s \in Supplied : QueryRequest(s) = BodyRequest(s)
    /\ \A r, q \in Reqs :
          (method[r] = "GET" /\ method[q] = "POST" /\ SameInputs(r, q)) =>
              Processing(r) = Processing(q)
    /\ \A r \in Reqs :
          (method[r] = "GET" /\ Succeeded(r)) =>
              responses[r] = <<HttpOk(JsonString(<<"done">>))>>

C15_Witness ==
    /\ method["r1"] = "GET"
    /\ method["r2"] = "POST"
    /\ SameInputs("r1", "r2")
    /\ request["r1"][1].system_prompt_suffix = "be brief"
    /\ Succeeded("r1")
    /\ Succeeded("r2")
    /\ providerCalls["r1"] = 2
    /\ Len(Payload("r1").tools_used) = 1
    /\ Payload("r1").full_response # <<>>
    /\ responses["r2"] = <<HttpOk(JsonString(<<"task done">>))>>

\* The loop of a connection is running: its handler is inside while True.
Streaming(c) == wsPc[c] \in {"capture", "send", "sleep"}

\* C17: a capture loop stops only by a disconnect: a handler that leaves
\* the loop does so with its viewer's connection closed, so a failure of
\* capture, resize or encode does not end the loop.
C17_OnlyDisconnectStopsLoop ==
    [][\A c \in Conns :
          (Streaming(c) /\ ~Streaming(c)') => peer[c] = "closed"
      ]_vars

\* The frame made of what connection c grabbed in its current iteration.
OwnFrame(c) == <<Encode(Resize(captured[c][1]))>>

\* The steps of one iteration, in order.
IterationOrder ==
    { <<"capture", "send">>, <<"send", "sleep">>, <<"sleep", "capture">> }

\* C18: each handler goes capture (with resize and encode), send, wait and
\* back to capture, in that order, unless it ends; a capture is followed by
\* at most one send, a message delivered is the resized, encoded capture of
\* the same iteration, and after a delivered send the handler waits before
\* it captures again.
C18_IterationOrder ==
    [][\A c \in Conns :
          /\ (wsPc'[c] # wsPc[c] /\ Streaming(c) /\ Streaming(c)')
                => <<wsPc[c], wsPc'[c]>> \in IterationOrder
          /\ captures'[c] # captures[c]
                => /\ wsPc[c] = "capture" /\ wsPc'[c] = "send"
                   /\ captures'[c] = captures[c] + 1
                   /\ frame'[c] = OwnFrame(c)'
          /\ sendAttempts'[c] # sendAttempts[c]
                => /\ wsPc[c] = "send"
                   /\ sendAttempts'[c] = sendAttempts[c] + 1
                   /\ sendAttempts'[c] = captures'[c]
          /\ sent'[c] # sent[c]
                => /\ wsPc[c] = "send" /\ wsPc'[c] = "sleep"
                   /\ sent'[c] = sent[c] + 1
                   /\ sent'[c] <= captures'[c]
                   /\ lastSent'[c] = OwnFrame(c)
                   /\ captured'[c] = captured[c]
      ]_vars

C18_Witness ==
    /\ wsPc["v1"] = "sleep"
    /\ captures["v1"] = 2
    /\ sent["v1"] = 2
    /\ sendAttempts["v1"] = 2
    /\ lastSent["v1"] = OwnFrame("v1")
    /\ lastSent["v1"][1].image.width = TargetWidth
    /\ lastSent["v1"][1].image.content = 1
    /\ screen = 1

\* C19: although every handler writes its capture to the one file
\* screenshot.jpg, the frame a handler is about to send, and the frame it
\* has just sent, is the encoding of what that handler itself captured in
\* this iteration, never of what another handler wrote to the file.
C19_FrameIsOwnCapture ==
    \A c \in Conns :
        /\ wsPc[c] = "send" => frame[c] = OwnFrame(c)
        /\ wsPc[c] = "sleep" => lastSent[c] = OwnFrame(c)

C19_Witness ==
    /\ wsPc["v1"] = "send"
    /\ captured["v1"][1].content = 0
    /\ frame["v1"][1].image.content = 0
    /\ wsPc["v2"] = "send"
    /\ file = captured["v2"]
    /\ file[1].content = 1

====
